---- MODULE Spec2Model ----
(***************************************************************************)
(* Sweet shop backend: the catalog of sweets, the users and bearer tokens, *)
(* and the HTTP handlers that mutate the catalog (create, update, delete,  *)
(* purchase, restock).  A handler is a function of the request and of the  *)
(* tables; an action applies one handler to the tables.                    *)
(*                                                                         *)
(* Modelling conventions                                                   *)
(*   - a table is a function from primary key to row (sweets) or a set of  *)
(*     rows (users);                                                       *)
(*   - prices are in cents (the code's float compared against 0);          *)
(*   - an f-string is its template together with the formatted numbers;    *)
(*   - a bcrypt hash is the pair of its salt and the password it hashes;   *)
(*   - a JWT is its claims together with the key that signed it.           *)
(***************************************************************************)
EXTENDS Integers, Sequences, FiniteSets, TLC

(* ------------------------------ bounds -------------------------------- *)
\* Largest quantity a sweet is created with or restocked to.
MaxQuantity == 3
\* Largest amount of one purchase or restock request.
MaxAmount == 3
\* Largest primary key the sweets table hands out.
MaxSweetId == 2
\* Number of inventory calls of one run of the ledger.
MaxCalls == 5
\* Number of inventory calls of one concurrent run, each in its own session.
MaxSessions == 2
\* Latest minute the clock reaches, and number of tokens login hands out.
MaxTime == 31
MaxTokens == 2

(* ------------------------- program constants -------------------------- *)
ACCESS_TOKEN_EXPIRE_MINUTES == 30
SECRET_KEY == "your-secret-key-change-in-production-use-env-variable"

UserRole == {"USER", "ADMIN"}

HTTP_200_OK == 200
HTTP_201_CREATED == 201
HTTP_204_NO_CONTENT == 204
HTTP_400_BAD_REQUEST == 400
HTTP_401_UNAUTHORIZED == 401
HTTP_403_FORBIDDEN == 403
HTTP_404_NOT_FOUND == 404
HTTP_422_UNPROCESSABLE_ENTITY == 422
HTTP_500_INTERNAL_SERVER_ERROR == 500

(* ------------------------------- state -------------------------------- *)
VARIABLES
    users,      \* the users table: a set of rows
    sweets,     \* the sweets table: id -> row
    issued,     \* the bearer tokens login has handed out
    now,        \* the clock, in minutes
    req,        \* the request being answered
    resp,       \* its response
    ledger,     \* per sweet: quantity at the start, amounts purchased, restocked
    calls,      \* number of inventory calls made so far
    sess        \* the concurrent sessions: their position and loaded row

vars == <<users, sweets, issued, now, req, resp, ledger, calls, sess>>

(* ------------------------- responses, requests ------------------------ *)
\* A response: status code, the detail's template, the numbers formatted
\* into it, and the rows of the body.
Response(status, detail, args, body) ==
    [status |-> status, detail |-> detail, args |-> args, body |-> body]

HTTPException(status, detail) == Response(status, detail, <<>>, <<>>)

\* pydantic's answer to a body that violates a Field constraint.
RequestValidationError ==
    Response(HTTP_422_UNPROCESSABLE_ENTITY, "validation error", <<>>, <<>>)

NoResponse == Response(0, "", <<>>, <<>>)

\* The result of a handler: the response and the tables it leaves.
Result(r, sw) == [resp |-> r, sweets |-> sw]

(* ---------------------------- credentials ----------------------------- *)
\* The Authorization header: absent, or a bearer token.
NoCredentials == [scheme |-> "none", sub |-> "", exp |-> 0, key |-> ""]

Token(sub, exp, key) == [scheme |-> "bearer", sub |-> sub, exp |-> exp, key |-> key]

\* jwt.encode of {"sub": email, "exp": now + 30 minutes} under SECRET_KEY.
create_access_token(email, t) ==
    Token(email, t + ACCESS_TOKEN_EXPIRE_MINUTES, SECRET_KEY)

\* Mutant of jwt.decode: the expiry is not verified.
decode_access_token_IgnoresExpiry(token, t) ==
    IF token.key # SECRET_KEY THEN <<>>
    ELSE IF token.sub = "" THEN <<>>
    ELSE <<token.sub>>

\* jwt.decode: the signature and the expiry are verified, then the claim read.
\* The result is the sequence holding the email, or the empty one (None).
decode_access_token(token, t) ==
    IF token.key # SECRET_KEY THEN <<>>
    ELSE IF t > token.exp THEN <<>>
    ELSE IF token.sub = "" THEN <<>>
    ELSE <<token.sub>>

\* bcrypt: the hash carries its salt; verification rehashes under that salt.
get_password_hash(password, salt) == <<salt, password>>

verify_password(plain_password, hashed_password) ==
    get_password_hash(plain_password, hashed_password[1]) = hashed_password

User(id, email, hashed_password, role) ==
    [id |-> id, email |-> email, hashed_password |-> hashed_password, role |-> role]

\* db.query(User).filter(User.email == email): the matching rows.
UsersByEmail(us, email) == {u \in us : u.email = email}

\* The dependency's result: the user, or the exception it raised.
Authenticated(u) == [ok |-> TRUE, user |-> <<u>>, error |-> NoResponse]
Rejected(e) == [ok |-> FALSE, user |-> <<>>, error |-> e]

\* Mutant of HTTPBearer: no Authorization header answered 401.
security_Unauthorized(cred) ==
    IF cred.scheme = "none"
    THEN Rejected(HTTPException(HTTP_401_UNAUTHORIZED, "Not authenticated"))
    ELSE Authenticated(cred)

\* HTTPBearer(): no Authorization header is answered 403.
security(cred) ==
    IF cred.scheme = "none"
    THEN Rejected(HTTPException(HTTP_403_FORBIDDEN, "Not authenticated"))
    ELSE Authenticated(cred)

get_current_user(cred, us, t) ==
    IF ~security(cred).ok THEN security(cred)
    ELSE LET token_data == decode_access_token(cred, t) IN
         IF token_data = <<>>
         THEN Rejected(HTTPException(HTTP_401_UNAUTHORIZED,
                                     "Could not validate credentials"))
         ELSE IF UsersByEmail(us, token_data[1]) = {}
         THEN Rejected(HTTPException(HTTP_401_UNAUTHORIZED,
                                     "Could not validate credentials"))
         ELSE Authenticated(CHOOSE u \in UsersByEmail(us, token_data[1]) : TRUE)

\* Mutant of the role test: any authenticated user passes.
IsAdmin_Anyone(current_user) == TRUE

\* The role test of require_admin.
IsAdmin(current_user) == current_user.role = "ADMIN"

require_admin(cred, us, t) ==
    LET current == get_current_user(cred, us, t) IN
    IF ~current.ok THEN current
    ELSE IF ~IsAdmin(current.user[1])
    THEN Rejected(HTTPException(HTTP_403_FORBIDDEN, "Admin access required"))
    ELSE current

(* ------------------------------ sweets -------------------------------- *)
Sweet(id, name, category, price, quantity) ==
    [id |-> id, name |-> name, category |-> category,
     price |-> price, quantity |-> quantity]

\* The body of POST /api/sweets and PUT /api/sweets/{id}.
SweetData(name, category, price, quantity) ==
    [name |-> name, category |-> category, price |-> price, quantity |-> quantity]

\* Mutant of the constraints: ge=0 for the price's gt=0.
SweetBaseValid_PriceZero(sweet_data) ==
    /\ sweet_data.name # ""
    /\ sweet_data.category # ""
    /\ sweet_data.price >= 0
    /\ sweet_data.quantity >= 0

\* SweetBase's Field constraints.
SweetBaseValid(sweet_data) ==
    /\ sweet_data.name # ""
    /\ sweet_data.category # ""
    /\ sweet_data.price > 0
    /\ sweet_data.quantity >= 0

\* Mutant of the constraint: ge=0 for gt=0.
InventoryOperationValid_AllowsZero(quantity) == quantity >= 0

\* InventoryOperation's Field constraint.
InventoryOperationValid(quantity) == quantity > 0

\* db.query(Sweet).filter(Sweet.id == sweet_id).first(): the row loaded into
\* the session, or nothing.
QuerySweet(sw, sweet_id) ==
    IF sweet_id \in DOMAIN sw THEN <<sw[sweet_id]>> ELSE <<>>

\* The primary key of a new row: one more than the largest in the table.
NextSweetId(sw) ==
    IF DOMAIN sw = {} THEN 1
    ELSE (CHOOSE m \in DOMAIN sw : \A i \in DOMAIN sw : i <= m) + 1

\* db.add(row); db.commit()
InsertSweet(sw, row) ==
    [i \in DOMAIN sw \cup {row.id} |-> IF i = row.id THEN row ELSE sw[i]]

\* Mutant of the UPDATE: the quantity left out of the assigned attributes.
UpdateSweet_KeepsQuantity(sw, row) ==
    [sw EXCEPT ![row.id] = [row EXCEPT !.quantity = sw[row.id].quantity]]

\* db.commit() of a loaded row whose attributes were all assigned: UPDATE ...
\* WHERE id = row.id.
UpdateSweet(sw, row) == [sw EXCEPT ![row.id] = row]

\* db.commit() of a loaded row whose quantity was assigned: UPDATE sweets SET
\* quantity = <the value computed in the session> WHERE id = sweet_id.
SetQuantity_EveryRow(sw, sweet_id, quantity) ==
    [i \in DOMAIN sw |-> [sw[i] EXCEPT !.quantity = quantity]]

SetQuantity(sw, sweet_id, quantity) == [sw EXCEPT ![sweet_id].quantity = quantity]

\* Mutant of the DELETE: its WHERE clause left out.
DeleteSweet_Everything(sw, sweet_id) == <<>>

\* db.delete(row); db.commit()
DeleteSweet(sw, sweet_id) == [i \in DOMAIN sw \ {sweet_id} |-> sw[i]]

\* db.query(Sweet).all(): the rows in primary-key order.
RECURSIVE RowsFrom(_, _)
RowsFrom(sw, ids) ==
    IF ids = {} THEN <<>>
    ELSE LET m == CHOOSE i \in ids : \A j \in ids : i <= j
         IN <<sw[m]>> \o RowsFrom(sw, ids \ {m})

AllSweets(sw) == RowsFrom(sw, DOMAIN sw)

(* ------------------------- InventoryService --------------------------- *)
\* The two stock tests of purchase_sweet and the assignments of both calls.
OutOfStock(sweet) == sweet.quantity = 0

\* Mutants of the sufficiency test: left out, and off by one.
InsufficientStock_Never(sweet, quantity) == FALSE

InsufficientStock_OffByOne(sweet, quantity) == sweet.quantity + 1 < quantity

InsufficientStock(sweet, quantity) == sweet.quantity < quantity

\* Mutant of the decrement: one unit whatever the amount.
Purchased_OneUnit(sweet, quantity) == sweet.quantity - 1

\* sweet.quantity -= quantity and sweet.quantity += quantity, on the loaded row.
Purchased(sweet, quantity) == sweet.quantity - quantity

\* Mutant of the increment: the amount assigned, not added.
Restocked_Assigns(sweet, quantity) == quantity

Restocked(sweet, quantity) == sweet.quantity + quantity

\* Mutants of the checks: the sufficiency test made first, and the detail
\* reporting the amount asked for.
PurchaseCheck_SufficiencyFirst(loaded, quantity) ==
    IF loaded = <<>>
    THEN HTTPException(HTTP_404_NOT_FOUND, "Sweet not found")
    ELSE IF InsufficientStock(loaded[1], quantity)
    THEN Response(HTTP_400_BAD_REQUEST, "Insufficient stock. Only {} available",
                  <<loaded[1].quantity>>, <<>>)
    ELSE IF OutOfStock(loaded[1])
    THEN HTTPException(HTTP_400_BAD_REQUEST, "Sweet is out of stock")
    ELSE NoResponse

PurchaseCheck_ReportsAsked(loaded, quantity) ==
    IF loaded = <<>>
    THEN HTTPException(HTTP_404_NOT_FOUND, "Sweet not found")
    ELSE IF OutOfStock(loaded[1])
    THEN HTTPException(HTTP_400_BAD_REQUEST, "Sweet is out of stock")
    ELSE IF InsufficientStock(loaded[1], quantity)
    THEN Response(HTTP_400_BAD_REQUEST, "Insufficient stock. Only {} available",
                  <<quantity>>, <<>>)
    ELSE NoResponse

\* The checks purchase_sweet makes on the row it loaded, in the code's order:
\* the exception raised, or NoResponse when the purchase may proceed.
PurchaseCheck(loaded, quantity) ==
    IF loaded = <<>>
    THEN HTTPException(HTTP_404_NOT_FOUND, "Sweet not found")
    ELSE IF OutOfStock(loaded[1])
    THEN HTTPException(HTTP_400_BAD_REQUEST, "Sweet is out of stock")
    ELSE IF InsufficientStock(loaded[1], quantity)
    THEN Response(HTTP_400_BAD_REQUEST, "Insufficient stock. Only {} available",
                  <<loaded[1].quantity>>, <<>>)
    ELSE NoResponse

RestockCheck(loaded) ==
    IF loaded = <<>>
    THEN HTTPException(HTTP_404_NOT_FOUND, "Sweet not found")
    ELSE NoResponse

\* InventoryResponse of the router: the refreshed row and the message.
InventoryResponse(sweet, message, quantity) ==
    Response(HTTP_200_OK, message, <<quantity>>, <<sweet>>)

\* Mutant of purchase_sweet: the quantity is assigned and committed before the
\* stock tests are made.
InventoryService_purchase_sweet_CommitsFirst(sw, sweet_id, quantity) ==
    LET loaded == QuerySweet(sw, sweet_id)
        check == PurchaseCheck(loaded, quantity)
    IN IF loaded = <<>> THEN Result(check, sw)
       ELSE LET committed == SetQuantity(sw, sweet_id, Purchased(loaded[1], quantity))
            IN IF check # NoResponse THEN Result(check, committed)
               ELSE Result(InventoryResponse(committed[sweet_id],
                                             "Successfully purchased {} units", quantity),
                           committed)

\* One session running purchase_sweet alone: query, checks, commit, refresh.
InventoryService_purchase_sweet(sw, sweet_id, quantity) ==
    LET loaded == QuerySweet(sw, sweet_id)
        check == PurchaseCheck(loaded, quantity)
    IN IF check # NoResponse THEN Result(check, sw)
       ELSE LET committed == SetQuantity(sw, sweet_id, Purchased(loaded[1], quantity))
            IN Result(InventoryResponse(committed[sweet_id],
                                        "Successfully purchased {} units", quantity),
                      committed)

InventoryService_restock_sweet(sw, sweet_id, quantity) ==
    LET loaded == QuerySweet(sw, sweet_id)
        check == RestockCheck(loaded)
    IN IF check # NoResponse THEN Result(check, sw)
       ELSE LET committed == SetQuantity(sw, sweet_id, Restocked(loaded[1], quantity))
            IN Result(InventoryResponse(committed[sweet_id],
                                        "Successfully restocked {} units", quantity),
                      committed)

(* ------------------------- routers/inventory -------------------------- *)
\* FastAPI resolves the dependencies (authentication) first, then reports the
\* body's validation errors, then calls the endpoint.
\* Mutant of the router: purchase made to depend on require_admin.
purchase_sweet_AdminOnly(cred, sweet_id, quantity, us, sw, t) ==
    LET current_user == require_admin(cred, us, t) IN
    IF ~current_user.ok THEN Result(current_user.error, sw)
    ELSE IF ~InventoryOperationValid(quantity) THEN Result(RequestValidationError, sw)
    ELSE InventoryService_purchase_sweet(sw, sweet_id, quantity)

purchase_sweet(cred, sweet_id, quantity, us, sw, t) ==
    LET current_user == get_current_user(cred, us, t) IN
    IF ~current_user.ok THEN Result(current_user.error, sw)
    ELSE IF ~InventoryOperationValid(quantity) THEN Result(RequestValidationError, sw)
    ELSE InventoryService_purchase_sweet(sw, sweet_id, quantity)

\* Mutant of the router: the sweet is looked up before the role is tested.
restock_sweet_LooksUpFirst(cred, sweet_id, quantity, us, sw, t) ==
    LET current_user == require_admin(cred, us, t) IN
    IF QuerySweet(sw, sweet_id) = <<>>
    THEN Result(HTTPException(HTTP_404_NOT_FOUND, "Sweet not found"), sw)
    ELSE IF ~current_user.ok THEN Result(current_user.error, sw)
    ELSE IF ~InventoryOperationValid(quantity) THEN Result(RequestValidationError, sw)
    ELSE InventoryService_restock_sweet(sw, sweet_id, quantity)

restock_sweet(cred, sweet_id, quantity, us, sw, t) ==
    LET current_user == require_admin(cred, us, t) IN
    IF ~current_user.ok THEN Result(current_user.error, sw)
    ELSE IF ~InventoryOperationValid(quantity) THEN Result(RequestValidationError, sw)
    ELSE InventoryService_restock_sweet(sw, sweet_id, quantity)

(* --------------------------- SweetService ----------------------------- *)
SweetService_create_sweet(sw, sweet_data) ==
    LET new_sweet == Sweet(NextSweetId(sw), sweet_data.name, sweet_data.category,
                           sweet_data.price, sweet_data.quantity)
    IN Result(Response(HTTP_201_CREATED, "", <<>>, <<new_sweet>>),
              InsertSweet(sw, new_sweet))

\* Mutant of the listing: the rows returned are taken out of the table.
SweetService_get_all_sweets_Consumes(sw) ==
    Result(Response(HTTP_200_OK, "", <<>>, AllSweets(sw)), <<>>)

SweetService_get_all_sweets(sw) ==
    Result(Response(HTTP_200_OK, "", <<>>, AllSweets(sw)), sw)

\* Mutant of update_sweet: a row that is not there is inserted (a merge).
SweetService_update_sweet_Merges(sw, sweet_id, sweet_data) ==
    LET sweet == Sweet(sweet_id, sweet_data.name, sweet_data.category,
                       sweet_data.price, sweet_data.quantity)
    IN Result(Response(HTTP_200_OK, "", <<>>, <<sweet>>), InsertSweet(sw, sweet))

\* update_sweet of the service with the router's 404 for its None.
SweetService_update_sweet(sw, sweet_id, sweet_data) ==
    LET loaded == QuerySweet(sw, sweet_id) IN
    IF loaded = <<>>
    THEN Result(Response(HTTP_404_NOT_FOUND, "Sweet with id {} not found",
                         <<sweet_id>>, <<>>), sw)
    ELSE LET sweet == Sweet(sweet_id, sweet_data.name, sweet_data.category,
                            sweet_data.price, sweet_data.quantity)
         IN Result(Response(HTTP_200_OK, "", <<>>, <<sweet>>), UpdateSweet(sw, sweet))

\* delete_sweet of the service with the router's 404 for its False.
SweetService_delete_sweet(sw, sweet_id) ==
    LET loaded == QuerySweet(sw, sweet_id) IN
    IF loaded = <<>>
    THEN Result(Response(HTTP_404_NOT_FOUND, "Sweet with id {} not found",
                         <<sweet_id>>, <<>>), sw)
    ELSE Result(Response(HTTP_204_NO_CONTENT, "", <<>>, <<>>),
                DeleteSweet(sw, sweet_id))

(* ------------------------------ search -------------------------------- *)
\* The query parameters of GET /api/sweets/search: each is None (<<>>) or the
\* value given (<<v>>); the price bounds in cents.
SearchParams(name, category, min_price, max_price) ==
    [name |-> name, category |-> category, min_price |-> min_price,
     max_price |-> max_price]

NoParams == SearchParams(<<>>, <<>>, <<>>, <<>>)

\* SQLite's lower(): the ASCII capitals are mapped, every other character is
\* left as it is.
AsciiUpper == "ABCDEFGHIJKLMNOPQRSTUVWXYZ"
AsciiLower == "abcdefghijklmnopqrstuvwxyz"

LowerChar(c) ==
    LET places == {i \in 1..Len(AsciiUpper) : SubSeq(AsciiUpper, i, i) = c}
    IN IF places = {} THEN c
       ELSE LET i == CHOOSE i \in places : TRUE IN SubSeq(AsciiLower, i, i)

RECURSIVE Lower(_)
Lower(str) ==
    IF str = "" THEN ""
    ELSE LowerChar(SubSeq(str, 1, 1)) \o Lower(SubSeq(str, 2, Len(str)))

\* SQL's LIKE with no ESCAPE clause: % matches any run of characters, _ any
\* one character, every other character itself.
RECURSIVE Like(_, _)
Like(str, pattern) ==
    IF pattern = "" THEN str = ""
    ELSE LET p == SubSeq(pattern, 1, 1)
             rest == SubSeq(pattern, 2, Len(pattern))
         IN IF p = "%"
            THEN \/ Like(str, rest)
                 \/ str # "" /\ Like(SubSeq(str, 2, Len(str)), pattern)
            ELSE /\ str # ""
                 /\ p = "_" \/ p = SubSeq(str, 1, 1)
                 /\ Like(SubSeq(str, 2, Len(str)), rest)

\* Column.ilike(other): lower(column) LIKE lower(other).
ilike(column, other) == Like(Lower(column), Lower(other))

\* Python's truth of an Optional[str]: None and "" are false.
Truthy(optional) == optional # <<>> /\ optional[1] # ""

\* The filters of search_sweets, each applied if its parameter is given.
NameFilter(row, name) == Truthy(name) => ilike(row.name, "%" \o name[1] \o "%")

CategoryFilter(row, category) == Truthy(category) => row.category = category[1]

MinPriceFilter(row, min_price) == min_price # <<>> => row.price >= min_price[1]

\* Mutant of the upper bound: < for <=.
MaxPriceFilter_Exclusive(row, max_price) ==
    max_price # <<>> => row.price < max_price[1]

MaxPriceFilter(row, max_price) == max_price # <<>> => row.price <= max_price[1]

\* query.filter(...).filter(...).all(): the rows that pass every filter, in
\* primary-key order.
SweetService_search_sweets(sw, params) ==
    LET Passes(row) == /\ NameFilter(row, params.name)
                       /\ CategoryFilter(row, params.category)
                       /\ MinPriceFilter(row, params.min_price)
                       /\ MaxPriceFilter(row, params.max_price)
    IN SelectSeq(AllSweets(sw), Passes)

\* Query(None, ge=0) of the two price bounds.
SearchParamsValid(params) ==
    /\ params.min_price # <<>> => params.min_price[1] >= 0
    /\ params.max_price # <<>> => params.max_price[1] >= 0

(* --------------------------- routers/sweets --------------------------- *)
create_sweet(cred, sweet_data, us, sw, t) ==
    LET admin == require_admin(cred, us, t) IN
    IF ~admin.ok THEN Result(admin.error, sw)
    ELSE IF ~SweetBaseValid(sweet_data) THEN Result(RequestValidationError, sw)
    ELSE SweetService_create_sweet(sw, sweet_data)

list_sweets(sw) == SweetService_get_all_sweets(sw)

\* Mutant of the router: an empty result answered 404.
search_sweets_NotFoundWhenEmpty(params, sw) ==
    IF ~SearchParamsValid(params) THEN Result(RequestValidationError, sw)
    ELSE IF SweetService_search_sweets(sw, params) = <<>>
    THEN Result(HTTPException(HTTP_404_NOT_FOUND, "No sweets found"), sw)
    ELSE Result(Response(HTTP_200_OK, "", <<>>, SweetService_search_sweets(sw, params)),
                sw)

search_sweets(params, sw) ==
    IF ~SearchParamsValid(params) THEN Result(RequestValidationError, sw)
    ELSE Result(Response(HTTP_200_OK, "", <<>>, SweetService_search_sweets(sw, params)),
                sw)

update_sweet(cred, sweet_id, sweet_data, us, sw, t) ==
    LET admin == require_admin(cred, us, t) IN
    IF ~admin.ok THEN Result(admin.error, sw)
    ELSE IF ~SweetBaseValid(sweet_data) THEN Result(RequestValidationError, sw)
    ELSE SweetService_update_sweet(sw, sweet_id, sweet_data)

\* Mutant of the router: the sweet is looked up before the caller is.
delete_sweet_LooksUpFirst(cred, sweet_id, us, sw, t) ==
    LET admin == require_admin(cred, us, t) IN
    IF QuerySweet(sw, sweet_id) = <<>> THEN SweetService_delete_sweet(sw, sweet_id)
    ELSE IF ~admin.ok THEN Result(admin.error, sw)
    ELSE SweetService_delete_sweet(sw, sweet_id)

delete_sweet(cred, sweet_id, us, sw, t) ==
    LET admin == require_admin(cred, us, t) IN
    IF ~admin.ok THEN Result(admin.error, sw)
    ELSE SweetService_delete_sweet(sw, sweet_id)

(* ---------------------------- routers/auth ---------------------------- *)
\* The body of POST /api/auth/register and /login; role is <<>> when left out.
UserData(email, password, role) == [email |-> email, password |-> password, role |-> role]

NoUserData == UserData("", "", <<>>)

\* The place of the "@" of an address, 0 if it has none.
AtSign(email) ==
    LET places == {k \in 1..Len(email) : SubSeq(email, k, k) = "@"}
    IN IF places = {} THEN 0 ELSE CHOOSE k \in places : TRUE

\* EmailStr: the address has a local part and a domain; the value the handler
\* receives is the normalized address, its domain in lower case.
EmailStrValid(email) == LET at == AtSign(email) IN 1 < at /\ at < Len(email)

EmailStr(email) ==
    LET at == AtSign(email)
    IN SubSeq(email, 1, at) \o Lower(SubSeq(email, at + 1, Len(email)))

\* UserCreate: EmailStr, password of min_length 8, role a UserRole (USER when
\* left out).
UserCreateValid(user_data) ==
    /\ EmailStrValid(user_data.email)
    /\ Len(user_data.password) >= 8
    /\ user_data.role # <<>> => user_data.role[1] \in UserRole

\* UserLogin: EmailStr and any password.
UserLoginValid(credentials) == EmailStrValid(credentials.email)

\* UserResponse: the user without the password hash.
UserResponse(user) == [id |-> user.id, email |-> user.email, role |-> user.role]

\* The primary key of a new user: one more than the largest in the table.
NextUserId(us) ==
    IF us = {} THEN 1
    ELSE (CHOOSE m \in {u.id : u \in us} : \A u \in us : u.id <= m) + 1

\* The result of an auth handler: the response, the users table it leaves and
\* the token it hands out, if any.
AuthResult(r, us, token) == [resp |-> r, users |-> us, token |-> token]

\* Mutant of register: no lookup, the row of the email is replaced.
register_user_Replaces(user_data, salt, us) ==
    IF ~UserCreateValid(user_data) THEN AuthResult(RequestValidationError, us, {})
    ELSE LET email == EmailStr(user_data.email)
             new_user == User(NextUserId(us), email,
                              get_password_hash(user_data.password, salt),
                              IF user_data.role = <<>> THEN "USER" ELSE user_data.role[1])
         IN AuthResult(Response(HTTP_201_CREATED, "", <<>>, <<UserResponse(new_user)>>),
                       (us \ UsersByEmail(us, email)) \cup {new_user}, {})

\* register_user, the salt being the one bcrypt.gensalt() draws.
register_user(user_data, salt, us) ==
    IF ~UserCreateValid(user_data) THEN AuthResult(RequestValidationError, us, {})
    ELSE LET email == EmailStr(user_data.email)
             existing_user == UsersByEmail(us, email)
         IN IF existing_user # {}
            THEN AuthResult(HTTPException(HTTP_400_BAD_REQUEST,
                                          "Email already registered"), us, {})
            ELSE LET new_user ==
                        User(NextUserId(us), email,
                             get_password_hash(user_data.password, salt),
                             IF user_data.role = <<>> THEN "USER" ELSE user_data.role[1])
                 IN AuthResult(Response(HTTP_201_CREATED, "", <<>>,
                                        <<UserResponse(new_user)>>),
                               us \cup {new_user}, {})

\* Mutant of login: the password is not verified.
login_user_AnyPassword(credentials, us, t) ==
    IF ~UserLoginValid(credentials) THEN AuthResult(RequestValidationError, us, {})
    ELSE LET found == UsersByEmail(us, EmailStr(credentials.email)) IN
         IF found = {}
         THEN AuthResult(HTTPException(HTTP_401_UNAUTHORIZED,
                                       "Incorrect email or password"), us, {})
         ELSE LET user == CHOOSE u \in found : TRUE
                  access_token == create_access_token(user.email, t)
              IN AuthResult(Response(HTTP_200_OK, "", <<>>,
                                     <<[access_token |-> access_token,
                                        token_type |-> "bearer",
                                        user |-> UserResponse(user)]>>),
                            us, {access_token})

\* Mutant of login: the stored hash is renewed at each successful login.
login_user_Rehashes(credentials, us, t) ==
    IF ~UserLoginValid(credentials) THEN AuthResult(RequestValidationError, us, {})
    ELSE LET found == UsersByEmail(us, EmailStr(credentials.email)) IN
         IF \/ found = {}
            \/ ~verify_password(credentials.password,
                                (CHOOSE u \in found : TRUE).hashed_password)
         THEN AuthResult(HTTPException(HTTP_401_UNAUTHORIZED,
                                       "Incorrect email or password"), us, {})
         ELSE LET user == CHOOSE u \in found : TRUE
                  access_token == create_access_token(user.email, t)
                  renewed == [user EXCEPT !.hashed_password =
                                 get_password_hash(credentials.password, "salt0")]
              IN AuthResult(Response(HTTP_200_OK, "", <<>>,
                                     <<[access_token |-> access_token,
                                        token_type |-> "bearer",
                                        user |-> UserResponse(user)]>>),
                            (us \ {user}) \cup {renewed}, {access_token})

login_user(credentials, us, t) ==
    IF ~UserLoginValid(credentials) THEN AuthResult(RequestValidationError, us, {})
    ELSE LET found == UsersByEmail(us, EmailStr(credentials.email)) IN
         IF \/ found = {}
            \/ ~verify_password(credentials.password,
                                (CHOOSE u \in found : TRUE).hashed_password)
         THEN AuthResult(HTTPException(HTTP_401_UNAUTHORIZED,
                                       "Incorrect email or password"), us, {})
         ELSE LET user == CHOOSE u \in found : TRUE
                  access_token == create_access_token(user.email, t)
              IN AuthResult(Response(HTTP_200_OK, "", <<>>,
                                     <<[access_token |-> access_token,
                                        token_type |-> "bearer",
                                        user |-> UserResponse(user)]>>),
                            us, {access_token})

(* ------------------------------ requests ------------------------------ *)
NoData == SweetData("", "", 0, 0)

Request(op, cred, sweet_id, quantity, data) ==
    [op |-> op, cred |-> cred, sweet_id |-> sweet_id, quantity |-> quantity,
     data |-> data, params |-> NoParams, user |-> NoUserData]

AuthRequest(op, user_data) ==
    [Request(op, NoCredentials, 0, 0, NoData) EXCEPT !.user = user_data]

SearchRequest(params) ==
    [Request("search", NoCredentials, 0, 0, NoData) EXCEPT !.params = params]

NoRequest == Request("", NoCredentials, 0, 0, NoData)

\* The accounts of the tests' fixtures: one ADMIN and one USER, registered and
\* logged in.
AdminEmail == "admin@sweetshop.com"
UserEmail == "user@sweetshop.com"

FixtureUsers ==
    { User(1, AdminEmail, get_password_hash("AdminPass123!", "salt1"), "ADMIN"),
      User(2, UserEmail, get_password_hash("UserPass123!", "salt2"), "USER") }

AdminToken == create_access_token(AdminEmail, 0)
UserToken == create_access_token(UserEmail, 0)

\* A token signed with another key.
ForgedToken == Token(AdminEmail, ACCESS_TOKEN_EXPIRE_MINUTES, "not-the-secret-key")

\* A token issued more than ACCESS_TOKEN_EXPIRE_MINUTES ago.
ExpiredToken == create_access_token(AdminEmail, 0 - (ACCESS_TOKEN_EXPIRE_MINUTES + 1))

\* A token whose payload has no "sub", and one whose "sub" is no user's email.
NoSubToken == Token("", ACCESS_TOKEN_EXPIRE_MINUTES, SECRET_KEY)
StrangerToken == create_access_token("nobody@sweetshop.com", 0)

\* What a client can put in the Authorization header.
Credentials(iss) == {NoCredentials, ForgedToken} \cup iss

\* The headers that authenticate nobody: none, and the tokens that fail
\* verification or name no user.
InvalidCredentials ==
    {NoCredentials, ForgedToken, ExpiredToken, NoSubToken, StrangerToken}

\* The ids a client asks for: those the table can hold (present or not).
SweetIds == 1..MaxSweetId

\* The amounts a client sends, the invalid ones included.
Amounts == -1..MaxAmount

\* The bodies a client sends for create and update: the valid ones, and one
\* body per violated Field constraint.
ValidSweetData ==
    {SweetData("Candy", "Sweet", 150, q) : q \in 0..MaxQuantity}
    \cup {SweetData("Fudge", "Bar", 299, q) : q \in 0..MaxQuantity}

InvalidSweetData ==
    { SweetData("", "Sweet", 150, 1), SweetData("Candy", "", 150, 1),
      SweetData("Candy", "Sweet", 0, 1), SweetData("Candy", "Sweet", 150, -1) }

SweetInputs == ValidSweetData \cup InvalidSweetData

\* The tables stay within the bounds.
WithinBounds(sw) ==
    /\ DOMAIN sw \subseteq SweetIds
    /\ \A i \in DOMAIN sw : sw[i].quantity <= MaxQuantity

(* ------------------------------ actions ------------------------------- *)
\* One request answered by its handler, alone: the handler runs from the
\* request's arrival to its response with no other request in between.
Answer(request, result) ==
    /\ req = NoRequest
    /\ WithinBounds(result.sweets)
    /\ req' = request
    /\ resp' = result.resp
    /\ sweets' = result.sweets
    /\ UNCHANGED <<users, issued, now, sess>>

\* One request answered by register or login: the users table and the tokens
\* handed out change, the catalog does not.
AnswerAuth(request, result) ==
    /\ req = NoRequest
    /\ req' = request
    /\ resp' = result.resp
    /\ users' = result.users
    /\ issued' = issued \cup result.token
    /\ UNCHANGED <<sweets, now, sess>>

Register(user_data, salt) ==
    AnswerAuth(AuthRequest("register", user_data), register_user(user_data, salt, users))

Login(credentials) ==
    AnswerAuth(AuthRequest("login", credentials), login_user(credentials, users, now))

Create(cred, data) ==
    Answer(Request("create", cred, 0, 0, data),
           create_sweet(cred, data, users, sweets, now))

List ==
    Answer(Request("list", NoCredentials, 0, 0, NoData), list_sweets(sweets))

Search(params) == Answer(SearchRequest(params), search_sweets(params, sweets))

Update(cred, sweet_id, data) ==
    Answer(Request("update", cred, sweet_id, 0, data),
           update_sweet(cred, sweet_id, data, users, sweets, now))

Delete(cred, sweet_id) ==
    Answer(Request("delete", cred, sweet_id, 0, NoData),
           delete_sweet(cred, sweet_id, users, sweets, now))

Purchase(cred, sweet_id, quantity) ==
    Answer(Request("purchase", cred, sweet_id, quantity, NoData),
           purchase_sweet(cred, sweet_id, quantity, users, sweets, now))

Restock(cred, sweet_id, quantity) ==
    Answer(Request("restock", cred, sweet_id, quantity, NoData),
           restock_sweet(cred, sweet_id, quantity, users, sweets, now))

\* The response is sent and get_db's finally clause closes the session: the
\* server is ready for the next request.
Close ==
    /\ req # NoRequest
    /\ req' = NoRequest
    /\ resp' = NoResponse
    /\ UNCHANGED <<users, sweets, issued, now, ledger, calls, sess>>

(* --------------------------- specification ---------------------------- *)
\* The API answering one request at a time, from the fixtures' accounts and an
\* empty catalog.
Init ==
    /\ users = FixtureUsers
    /\ issued = {AdminToken, UserToken}
    /\ now = 0
    /\ sweets = <<>>
    /\ req = NoRequest
    /\ resp = NoResponse
    /\ ledger = <<>>
    /\ calls = 0
    /\ sess = <<>>

Next ==
    \/ \E cred \in Credentials(issued), data \in SweetInputs :
          Create(cred, data) /\ UNCHANGED <<ledger, calls>>
    \/ List /\ UNCHANGED <<ledger, calls>>
    \/ \E cred \in Credentials(issued), sweet_id \in SweetIds, data \in SweetInputs :
          Update(cred, sweet_id, data) /\ UNCHANGED <<ledger, calls>>
    \/ \E cred \in Credentials(issued), sweet_id \in SweetIds :
          Delete(cred, sweet_id) /\ UNCHANGED <<ledger, calls>>
    \/ \E cred \in Credentials(issued), sweet_id \in SweetIds, quantity \in Amounts :
          Purchase(cred, sweet_id, quantity) /\ UNCHANGED <<ledger, calls>>
    \/ \E cred \in Credentials(issued), sweet_id \in SweetIds, quantity \in Amounts :
          Restock(cred, sweet_id, quantity) /\ UNCHANGED <<ledger, calls>>
    \/ Close

Spec == Init /\ [][Next]_vars

(* ------------------- the inventory calls, with a ledger ---------------- *)
\* The catalogs an administrator can have built (rows without their ids): any
\* sweets of the table, with any quantities.
Catalogs ==
    UNION { [ids -> {Sweet(0, "Candy", "Sweet", 150, q) : q \in 0..MaxQuantity}]
            : ids \in SUBSET SweetIds }

WithIds(sw) == [i \in DOMAIN sw |-> [sw[i] EXCEPT !.id = i]]

\* The catalogs of the runs that follow one sweet: the first sweet created,
\* with any quantity, or nothing.
OneSweetCatalogs ==
    {WithIds(sw) : sw \in {c \in Catalogs : DOMAIN c \subseteq {NextSweetId(<<>>)}}}

\* The ids asked for in those runs: the sweet, and an id that is not there.
AskedIds(sw) == DOMAIN sw \cup {NextSweetId(sw)}

\* The ledger of a catalog: what each sweet started with, and nothing moved.
OpenLedger(sw) ==
    [i \in DOMAIN sw |-> [initial |-> sw[i].quantity, purchased |-> 0, restocked |-> 0]]

\* The ledger after a call: the amount of a purchase or restock that succeeded
\* is added to its sweet's column.
Booked(led, request, response) ==
    IF response.status # HTTP_200_OK THEN led
    ELSE IF request.op = "purchase"
    THEN [led EXCEPT ![request.sweet_id].purchased = @ + request.quantity]
    ELSE [led EXCEPT ![request.sweet_id].restocked = @ + request.quantity]

\* An inventory call of the sequential run: it is counted and booked.
Counted ==
    /\ calls < MaxCalls
    /\ calls' = calls + 1
    /\ ledger' = Booked(ledger, req', resp')

InitInventory ==
    /\ users = FixtureUsers
    /\ issued = {AdminToken, UserToken}
    /\ now = 0
    /\ sweets \in OneSweetCatalogs
    /\ req = NoRequest
    /\ resp = NoResponse
    /\ ledger = OpenLedger(sweets)
    /\ calls = 0
    /\ sess = <<>>

NextInventory ==
    \/ \E cred \in issued, sweet_id \in AskedIds(sweets), quantity \in 1..MaxAmount :
          Purchase(cred, sweet_id, quantity) /\ Counted
    \/ \E cred \in issued, sweet_id \in AskedIds(sweets), quantity \in 1..MaxAmount :
          Restock(cred, sweet_id, quantity) /\ Counted
    \/ Close

SpecInventory == InitInventory /\ [][NextInventory]_vars

(* --------------- the inventory calls, session by session --------------- *)
(* Each request has a database session of its own (get_db).  A session     *)
(* loads the row, tests the loaded row, assigns the new quantity to it,    *)
(* commits that value and reloads the row.  The statements of two sessions *)
(* interleave: nothing in the code locks the row between its SELECT and    *)
(* its UPDATE, and the engine (SQLite, no transaction open at the SELECT)  *)
(* makes only the single statements atomic.                                *)
Sessions == 1..MaxSessions

Session(pc, op, sweet_id, quantity, loaded, value, response) ==
    [pc |-> pc, op |-> op, sweet_id |-> sweet_id, quantity |-> quantity,
     loaded |-> loaded, value |-> value, resp |-> response, data |-> NoData]

\* get_db: a session is made for one request, and closed after it.
NewSession == Session("new", "", 0, 0, <<>>, 0, NoResponse)
ClosedSession == Session("closed", "", 0, 0, <<>>, 0, NoResponse)

\* The sweet no longer there at the UPDATE or at the reload: the ORM raises and
\* the server answers 500.
RowGone == HTTPException(HTTP_500_INTERNAL_SERVER_ERROR, "Internal Server Error")

\* The request passed the router's dependencies and validation: the service
\* is entered with a fresh session (the sessions are taken in order).
Begin(s, op, cred, sweet_id, quantity) ==
    /\ sess[s].pc = "new"
    /\ \A r \in Sessions : r < s => sess[r].pc # "new"
    /\ IF op = "purchase" THEN get_current_user(cred, users, now).ok
                          ELSE require_admin(cred, users, now).ok
    /\ InventoryOperationValid(quantity)
    /\ sess' = [sess EXCEPT ![s] = Session("query", op, sweet_id, quantity, <<>>, 0,
                                           NoResponse)]
    /\ calls' = calls + 1
    /\ UNCHANGED <<users, sweets, issued, now, req, resp, ledger>>

\* An update or a delete passed require_admin and (the update) the validation
\* of its values: the service is entered with a fresh session.
BeginCatalog(s, op, cred, sweet_id, sweet_data) ==
    /\ sess[s].pc = "new"
    /\ \A r \in Sessions : r < s => sess[r].pc # "new"
    /\ require_admin(cred, users, now).ok
    /\ op = "update" => SweetBaseValid(sweet_data)
    /\ sess' = [sess EXCEPT ![s] = [Session("query", op, sweet_id, 0, <<>>, 0, NoResponse)
                                       EXCEPT !.data = IF op = "update" THEN sweet_data
                                                       ELSE NoData]]
    /\ calls' = calls + 1
    /\ UNCHANGED <<users, sweets, issued, now, req, resp, ledger>>

\* The columns update_sweet's assignments changed on the loaded row: the
\* UPDATE of the commit sets these and no others.
Dirty(sweet, sweet_data) ==
    {c \in {"name", "category", "price", "quantity"} : sweet_data[c] # sweet[c]}

\* The stored row after that UPDATE.
Flushed(row, dirty, sweet_data) ==
    [c \in DOMAIN row |-> IF c \in dirty THEN sweet_data[c] ELSE row[c]]

\* sweet = db.query(Sweet).filter(Sweet.id == sweet_id).first()
Query(s) ==
    /\ sess[s].pc = "query"
    /\ sess' = [sess EXCEPT ![s].loaded = QuerySweet(sweets, sess[s].sweet_id),
                            ![s].pc = "check"]
    /\ UNCHANGED <<users, sweets, issued, now, req, resp, ledger, calls>>

\* The tests on the loaded row, then the assignment to its quantity.
Check(s) ==
    /\ sess[s].pc = "check"
    /\ LET check == CASE sess[s].op = "purchase" ->
                              PurchaseCheck(sess[s].loaded, sess[s].quantity)
                       [] sess[s].op = "restock" -> RestockCheck(sess[s].loaded)
                       [] OTHER ->
                              IF sess[s].loaded # <<>> THEN NoResponse
                              ELSE Response(HTTP_404_NOT_FOUND,
                                            "Sweet with id {} not found",
                                            <<sess[s].sweet_id>>, <<>>)
       IN IF check # NoResponse
          THEN sess' = [sess EXCEPT ![s].resp = check, ![s].loaded = <<>>,
                                    ![s].pc = "done"]
          ELSE sess' = [sess EXCEPT
                   ![s].value =
                       CASE sess[s].op = "purchase" ->
                              Purchased(sess[s].loaded[1], sess[s].quantity)
                         [] sess[s].op = "restock" ->
                              Restocked(sess[s].loaded[1], sess[s].quantity)
                         [] OTHER -> 0,
                   ![s].pc = "commit"]
    /\ UNCHANGED <<users, sweets, issued, now, req, resp, ledger, calls>>

\* db.commit(): the UPDATE of the assigned quantity; for update_sweet the
\* UPDATE of the columns its assignments changed (none changed: no statement);
\* for delete_sweet the DELETE of the row.
Commit(s) ==
    /\ sess[s].pc = "commit"
    /\ CASE sess[s].op \in {"purchase", "restock"} ->
              IF sess[s].sweet_id \in DOMAIN sweets
              THEN /\ WithinBounds(SetQuantity(sweets, sess[s].sweet_id, sess[s].value))
                   /\ sweets' = SetQuantity(sweets, sess[s].sweet_id, sess[s].value)
                   /\ ledger' = Booked(ledger, sess[s],
                                       Response(HTTP_200_OK, "", <<>>, <<>>))
                   /\ sess' = [sess EXCEPT ![s].pc = "refresh"]
              ELSE /\ sess' = [sess EXCEPT ![s].resp = RowGone, ![s].loaded = <<>>,
                                           ![s].value = 0, ![s].pc = "done"]
                   /\ UNCHANGED <<sweets, ledger>>
         [] sess[s].op = "update" ->
              LET dirty == Dirty(sess[s].loaded[1], sess[s].data) IN
              /\ IF dirty = {}
                 THEN /\ sweets' = sweets
                      /\ sess' = [sess EXCEPT ![s].pc = "refresh"]
                 ELSE IF sess[s].sweet_id \in DOMAIN sweets
                 THEN /\ sweets' = UpdateSweet(sweets,
                                       Flushed(sweets[sess[s].sweet_id], dirty,
                                               sess[s].data))
                      /\ sess' = [sess EXCEPT ![s].pc = "refresh"]
                 ELSE /\ sweets' = sweets
                      /\ sess' = [sess EXCEPT ![s].resp = RowGone,
                                              ![s].loaded = <<>>, ![s].pc = "done"]
              /\ ledger' = ledger
         [] sess[s].op = "delete" ->
              /\ sweets' = DeleteSweet(sweets, sess[s].sweet_id)
              /\ sess' = [sess EXCEPT
                            ![s].resp = Response(HTTP_204_NO_CONTENT, "", <<>>, <<>>),
                            ![s].loaded = <<>>, ![s].pc = "done"]
              /\ ledger' = ledger
    /\ UNCHANGED <<users, issued, now, req, resp, calls>>

\* db.refresh(sweet), and the router's response from the reloaded row.
Refresh(s) ==
    /\ sess[s].pc = "refresh"
    /\ LET loaded == QuerySweet(sweets, sess[s].sweet_id) IN
       sess' = [sess EXCEPT
                  ![s].loaded = <<>>,
                  ![s].value = 0,
                  ![s].resp = IF loaded = <<>> THEN RowGone
                              ELSE IF sess[s].op = "update"
                              THEN Response(HTTP_200_OK, "", <<>>, loaded)
                              ELSE InventoryResponse(loaded[1],
                                      IF sess[s].op = "purchase"
                                      THEN "Successfully purchased {} units"
                                      ELSE "Successfully restocked {} units",
                                      sess[s].quantity),
                  ![s].pc = "done"]
    /\ UNCHANGED <<users, sweets, issued, now, req, resp, ledger, calls>>

\* The response is sent and the session closed.
CloseSession(s) ==
    /\ sess[s].pc = "done"
    /\ sess' = [sess EXCEPT ![s] = ClosedSession]
    /\ UNCHANGED <<users, sweets, issued, now, req, resp, ledger, calls>>

\* The sessions contend for one sweet: the catalog holds the first sweet
\* alone, or nothing.
InitSessions ==
    /\ users = FixtureUsers
    /\ issued = {AdminToken, UserToken}
    /\ now = 0
    /\ sweets \in OneSweetCatalogs
    /\ req = NoRequest
    /\ resp = NoResponse
    /\ ledger = OpenLedger(sweets)
    /\ calls = 0
    /\ sess = [s \in Sessions |-> NewSession]

NextSessions ==
    \/ \E s \in Sessions, op \in {"purchase", "restock"}, cred \in issued,
          sweet_id \in AskedIds(sweets),
          quantity \in 1..MaxAmount :
          Begin(s, op, cred, sweet_id, quantity)
    \/ \E s \in Sessions : Query(s)
    \/ \E s \in Sessions : Check(s)
    \/ \E s \in Sessions : Commit(s)
    \/ \E s \in Sessions : Refresh(s)
    \/ \E s \in Sessions : CloseSession(s)

SpecSessions == InitSessions /\ [][NextSessions]_vars

(* ------------------ calls on different sweets, overlapping ------------- *)
\* Every session works on a sweet of its own (session s on the id s), which
\* is in the catalog or not, sold out or in stock: a purchase or a restock of
\* one unit or of the largest amount, an update to other values, or a delete,
\* by an administrator.
InitIndependent ==
    /\ users = FixtureUsers
    /\ issued = {AdminToken, UserToken}
    /\ now = 0
    /\ sweets \in {WithIds(c) : c \in {d \in Catalogs :
                        /\ DOMAIN d \subseteq Sessions
                        /\ \A i \in DOMAIN d : d[i].quantity \in {0, MaxQuantity - 1}}}
    /\ req = NoRequest
    /\ resp = NoResponse
    /\ ledger = OpenLedger(sweets)
    /\ calls = 0
    /\ sess = [s \in Sessions |-> NewSession]

NextIndependent ==
    \/ \E s \in Sessions, op \in {"purchase", "restock"}, quantity \in {1, MaxAmount} :
          Begin(s, op, AdminToken, s, quantity)
    \/ \E s \in Sessions, op \in {"update", "delete"},
          sweet_data \in {SweetData("Fudge", "Bar", 299, q) : q \in {0, MaxQuantity}} :
          BeginCatalog(s, op, AdminToken, s, sweet_data)
    \/ \E s \in Sessions : Query(s)
    \/ \E s \in Sessions : Check(s)
    \/ \E s \in Sessions : Commit(s)
    \/ \E s \in Sessions : Refresh(s)
    \/ \E s \in Sessions : CloseSession(s)

SpecIndependent == InitIndependent /\ [][NextIndependent]_vars

(* ------------- an update overlapping purchases and restocks ----------- *)
\* The first session is an administrator's update of the sweet (or of an id
\* that is not there), the others are purchases and restocks of it.
NextUpdateRace ==
    \/ \E sweet_id \in AskedIds(sweets), sweet_data \in ValidSweetData :
          BeginCatalog(1, "update", AdminToken, sweet_id, sweet_data)
    \/ \E s \in Sessions \ {1}, op \in {"purchase", "restock"}, cred \in issued,
          sweet_id \in AskedIds(sweets), quantity \in 1..MaxAmount :
          Begin(s, op, cred, sweet_id, quantity)
    \/ \E s \in Sessions : Query(s)
    \/ \E s \in Sessions : Check(s)
    \/ \E s \in Sessions : Commit(s)
    \/ \E s \in Sessions : Refresh(s)
    \/ \E s \in Sessions : CloseSession(s)

SpecUpdateRace == InitSessions /\ [][NextUpdateRace]_vars

(* ------------------------ registration and login ---------------------- *)
\* What clients send to register and login: the fixtures' addresses, one of
\* them also with its domain in capitals, and a string that is no address;
\* the fixtures' passwords and one that is too short; every role, none, and
\* a string that is no role.  bcrypt draws one of two salts.
Emails == {AdminEmail, UserEmail, "user@SweetShop.COM", "not-an-email"}
Passwords == {"AdminPass123!", "UserPass123!", "short"}
Roles == {<<>>, <<"USER">>, <<"ADMIN">>, <<"OWNER">>}
Salts == {"salt1", "salt2"}

\* The one sweet the catalog calls of these runs are about.
TheSweet == NextSweetId(<<>>)
TheSweetData == SweetData("Candy", "Sweet", 150, 1)

InitAuth ==
    /\ users = {}
    /\ issued = {}
    /\ now = 0
    /\ sweets = <<>>
    /\ req = NoRequest
    /\ resp = NoResponse
    /\ ledger = <<>>
    /\ calls = 0
    /\ sess = <<>>

NextAuth ==
    \/ \E email \in Emails, password \in Passwords, role \in Roles, salt \in Salts :
          Register(UserData(email, password, role), salt) /\ UNCHANGED <<ledger, calls>>
    \/ \E email \in Emails, password \in Passwords :
          Login(UserData(email, password, <<>>)) /\ UNCHANGED <<ledger, calls>>
    \/ \E cred \in issued :
          /\ sweets = <<>>
          /\ Create(cred, TheSweetData)
          /\ UNCHANGED <<ledger, calls>>
    \/ \E cred \in issued :
          Update(cred, TheSweet, TheSweetData) /\ UNCHANGED <<ledger, calls>>
    \/ \E cred \in issued : Delete(cred, TheSweet) /\ UNCHANGED <<ledger, calls>>
    \/ \E cred \in issued : Purchase(cred, TheSweet, 1) /\ UNCHANGED <<ledger, calls>>
    \/ \E cred \in issued : Restock(cred, TheSweet, 1) /\ UNCHANGED <<ledger, calls>>
    \/ Close

SpecAuth == InitAuth /\ [][NextAuth]_vars

(* ------------------- registrations, session by session ---------------- *)
(* register_user in a session of its own: the lookup of the email, then    *)
(* the hash and the new row in memory, then the INSERT of the commit.  The *)
(* statements of two sessions interleave; the users table has a unique     *)
(* index on email, which the INSERT of a second row of an email violates.  *)
RegisterSession(pc, user_data, new_user, response) ==
    [pc |-> pc, data |-> user_data, new_user |-> new_user, resp |-> response]

\* db.commit() raised IntegrityError (UNIQUE constraint failed: users.email);
\* nothing in register_user or the application handles it.
IntegrityError == HTTPException(HTTP_500_INTERNAL_SERVER_ERROR, "Internal Server Error")

\* The body passed the validation of UserCreate: the handler is entered with
\* the normalized address and a fresh session.
BeginRegister(s, user_data) ==
    /\ sess[s].pc = "new"
    /\ \A r \in Sessions : r < s => sess[r].pc # "new"
    /\ UserCreateValid(user_data)
    /\ sess' = [sess EXCEPT ![s] =
                  RegisterSession("lookup",
                                  [user_data EXCEPT !.email = EmailStr(user_data.email)],
                                  <<>>, NoResponse)]
    /\ UNCHANGED <<users, sweets, issued, now, req, resp, ledger, calls>>

\* existing_user = db.query(User).filter(User.email == ...).first(), the 400 if
\* there is one, else the hash and the new User (its id is given at the INSERT).
LookupUser(s, salt) ==
    /\ sess[s].pc = "lookup"
    /\ IF UsersByEmail(users, sess[s].data.email) # {}
       THEN sess' = [sess EXCEPT
                       ![s].resp = HTTPException(HTTP_400_BAD_REQUEST,
                                                 "Email already registered"),
                       ![s].pc = "done"]
       ELSE sess' = [sess EXCEPT
                       ![s].new_user =
                           <<User(0, sess[s].data.email,
                                  get_password_hash(sess[s].data.password, salt),
                                  IF sess[s].data.role = <<>> THEN "USER"
                                  ELSE sess[s].data.role[1])>>,
                       ![s].pc = "commit"]
    /\ UNCHANGED <<users, sweets, issued, now, req, resp, ledger, calls>>

\* db.add(new_user); db.commit(); db.refresh(new_user): the INSERT, which the
\* unique index on email rejects when a row of that email is there by now.
CommitUser(s) ==
    /\ sess[s].pc = "commit"
    /\ IF UsersByEmail(users, sess[s].data.email) # {}
       THEN /\ users' = users
            /\ sess' = [sess EXCEPT ![s].resp = IntegrityError, ![s].new_user = <<>>,
                                    ![s].pc = "done"]
       ELSE LET new_user == [sess[s].new_user[1] EXCEPT !.id = NextUserId(users)] IN
            /\ users' = users \cup {new_user}
            /\ sess' = [sess EXCEPT
                          ![s].resp = Response(HTTP_201_CREATED, "", <<>>,
                                               <<UserResponse(new_user)>>),
                          ![s].new_user = <<>>,
                          ![s].pc = "done"]
    /\ UNCHANGED <<sweets, issued, now, req, resp, ledger, calls>>

\* The response is sent and the session closed.
CloseRegister(s) ==
    /\ sess[s].pc = "done"
    /\ sess' = [sess EXCEPT ![s] = RegisterSession("closed", NoUserData, <<>>, NoResponse)]
    /\ UNCHANGED <<users, sweets, issued, now, req, resp, ledger, calls>>

\* Nobody is registered, or the fixtures' user is.
InitRegisterRace ==
    /\ users \in {{}, {User(1, UserEmail, get_password_hash("UserPass123!", "salt2"),
                            "USER")}}
    /\ issued = {}
    /\ now = 0
    /\ sweets = <<>>
    /\ req = NoRequest
    /\ resp = NoResponse
    /\ ledger = <<>>
    /\ calls = 0
    /\ sess = [s \in Sessions |-> RegisterSession("new", NoUserData, <<>>, NoResponse)]

NextRegisterRace ==
    \/ \E s \in Sessions, email \in Emails, password \in Passwords, role \in Roles :
          BeginRegister(s, UserData(email, password, role))
    \/ \E s \in Sessions, salt \in Salts : LookupUser(s, salt)
    \/ \E s \in Sessions : CommitUser(s)
    \/ \E s \in Sessions : CloseRegister(s)

SpecRegisterRace == InitRegisterRace /\ [][NextRegisterRace]_vars

(* ------------------------- tokens and the clock ----------------------- *)
\* The instants at which an answer can change: a minute before, at and a
\* minute after the expiry of a token handed out.
Instants == UNION {{token.exp - 1, token.exp, token.exp + 1} : token \in issued}

\* Time passes between two requests, up to one of those instants.
Tick(t) ==
    /\ req = NoRequest
    /\ t \in Instants
    /\ now < t
    /\ t <= MaxTime
    /\ now' = t
    /\ UNCHANGED <<users, sweets, issued, req, resp, ledger, calls, sess>>

\* The fixtures' accounts log in, time passes, and their tokens are presented
\* to the protected endpoints, for one sweet.
InitTokens ==
    /\ users = FixtureUsers
    /\ issued = {}
    /\ now = 0
    /\ sweets \in OneSweetCatalogs
    /\ req = NoRequest
    /\ resp = NoResponse
    /\ ledger = <<>>
    /\ calls = 0
    /\ sess = <<>>

NextTokens ==
    \/ \E credentials \in {UserData(AdminEmail, "AdminPass123!", <<>>),
                           UserData(UserEmail, "UserPass123!", <<>>)} :
          /\ Cardinality(issued) < MaxTokens
          /\ Login(credentials)
          /\ UNCHANGED <<ledger, calls>>
    \/ \E t \in 1..MaxTime : Tick(t)
    \/ \E cred \in issued :
          /\ sweets = <<>>
          /\ Create(cred, TheSweetData)
          /\ UNCHANGED <<ledger, calls>>
    \/ \E cred \in issued :
          Update(cred, TheSweet, TheSweetData) /\ UNCHANGED <<ledger, calls>>
    \/ \E cred \in issued : Delete(cred, TheSweet) /\ UNCHANGED <<ledger, calls>>
    \/ \E cred \in issued : Purchase(cred, TheSweet, 1) /\ UNCHANGED <<ledger, calls>>
    \/ \E cred \in issued : Restock(cred, TheSweet, 1) /\ UNCHANGED <<ledger, calls>>
    \/ Close

SpecTokens == InitTokens /\ [][NextTokens]_vars

(* --------------------- the unauthenticated callers -------------------- *)
\* The protected endpoints called without a valid token, on any catalog an
\* administrator can have built.
InitRejected ==
    /\ users = FixtureUsers
    /\ issued = {AdminToken, UserToken}
    /\ now = 0
    /\ sweets \in {WithIds(c) : c \in Catalogs}
    /\ req = NoRequest
    /\ resp = NoResponse
    /\ ledger = <<>>
    /\ calls = 0
    /\ sess = <<>>

NextRejected ==
    \/ \E cred \in InvalidCredentials, data \in SweetInputs :
          Create(cred, data) /\ UNCHANGED <<ledger, calls>>
    \/ \E cred \in InvalidCredentials, sweet_id \in SweetIds, data \in SweetInputs :
          Update(cred, sweet_id, data) /\ UNCHANGED <<ledger, calls>>
    \/ \E cred \in InvalidCredentials, sweet_id \in SweetIds :
          Delete(cred, sweet_id) /\ UNCHANGED <<ledger, calls>>
    \/ \E cred \in InvalidCredentials, sweet_id \in SweetIds, quantity \in Amounts :
          Purchase(cred, sweet_id, quantity) /\ UNCHANGED <<ledger, calls>>
    \/ \E cred \in InvalidCredentials, sweet_id \in SweetIds, quantity \in Amounts :
          Restock(cred, sweet_id, quantity) /\ UNCHANGED <<ledger, calls>>
    \/ Close

SpecRejected == InitRejected /\ [][NextRejected]_vars

(* ------------------------- the public reads --------------------------- *)
\* The sweets the searches run over: names that differ in case from the
\* filters and one that holds a LIKE wildcard, categories that differ in case
\* only, two prices.
SampleSweets ==
    { Sweet(0, "Choco", "Bar", 100, 1), Sweet(0, "mint", "bar", 200, 1),
      Sweet(0, "50%", "Bar", 200, 0) }

\* The catalogs an administrator builds from them: ids 1..n.
SearchCatalogs ==
    UNION { {WithIds(c) : c \in [1..n -> SampleSweets]} : n \in 0..MaxSweetId }

\* The values a client gives each query parameter: absent, empty, matching in
\* another case, holding a wildcard, matching nothing; a bound below, at,
\* between and above the prices, and a negative one.
SearchNames == {<<>>, <<"">>, <<"choc">>, <<"HOC">>, <<"_">>, <<"%">>, <<"nut">>}
SearchCategories == {<<>>, <<"">>, <<"Bar">>, <<"bar">>, <<"Tin">>}
PriceBounds == {<<>>, <<0 - 1>>, <<0>>, <<100>>, <<150>>, <<200>>}

SearchInputs ==
    {SearchParams(n, c, lo, hi) :
        n \in SearchNames, c \in SearchCategories, lo \in PriceBounds, hi \in PriceBounds}

InitSearch ==
    /\ users = FixtureUsers
    /\ issued = {AdminToken, UserToken}
    /\ now = 0
    /\ sweets \in SearchCatalogs
    /\ req = NoRequest
    /\ resp = NoResponse
    /\ ledger = <<>>
    /\ calls = 0
    /\ sess = <<>>

NextSearch ==
    \/ \E params \in SearchInputs : Search(params) /\ UNCHANGED <<ledger, calls>>
    \/ List /\ UNCHANGED <<ledger, calls>>
    \/ Close

SpecSearch == InitSearch /\ [][NextSearch]_vars

(* ------------------------------- claims ------------------------------- *)
\* The caller of the request holds a token that login issued.
CallerAuthenticated(request) == request.cred \in issued

\* The role of the caller of the request, a set: empty when the caller is no user.
CallerRoles(request) == {u.role : u \in UsersByEmail(users, request.cred.sub)}

\* Every sweet's quantity is what the ledger says: what it started with, less
\* the purchases that succeeded, plus the restocks.
LedgerBalances ==
    \A i \in DOMAIN sweets :
        sweets[i].quantity
            = ledger[i].initial - ledger[i].purchased + ledger[i].restocked

NonNegative == \A i \in DOMAIN sweets : sweets[i].quantity >= 0

\* C1: in a run of purchase and restock calls made one after the other on a
\* sweet, with amounts > 0, the quantity is at every point the initial
\* quantity minus the amounts of the purchases that succeeded plus the amounts
\* of the restocks, it is never negative, and a purchase that would make it
\* negative is rejected and changes nothing.
C1_SequentialLedger ==
    /\ [](LedgerBalances /\ NonNegative)
    /\ [][(/\ req'.op = "purchase"
           /\ req'.sweet_id \in DOMAIN sweets
           /\ sweets[req'.sweet_id].quantity - req'.quantity < 0)
          => (/\ resp'.status = HTTP_400_BAD_REQUEST
              /\ sweets' = sweets
              /\ ledger' = ledger)]_vars

\* C1 witness: a sweet has been purchased from and restocked, and the last
\* purchase asked for more than was left and was rejected.
C1_Witness ==
    /\ req.op = "purchase"
    /\ req.sweet_id \in DOMAIN sweets
    /\ ledger[req.sweet_id].purchased >= 2
    /\ ledger[req.sweet_id].restocked >= 1
    /\ 0 < sweets[req.sweet_id].quantity
    /\ sweets[req.sweet_id].quantity < req.quantity
    /\ resp.status = HTTP_400_BAD_REQUEST

\* C2: whatever the interleaving of the purchase and restock calls on a sweet
\* (each call's SELECT, checks, UPDATE and reload being steps of its own
\* session), the quantity of every sweet is >= 0 in every reachable state.
C2_NonNegativeInterleaved == NonNegative

\* C2 witness: two purchases overlapped and both passed the sufficiency test
\* on the same loaded quantity, so that more was sold than the sweet held; the
\* stored quantity is still not negative.
C2_Witness ==
    \E i \in DOMAIN sweets :
        /\ ledger[i].purchased > ledger[i].initial + ledger[i].restocked
        /\ sweets[i].quantity >= 0

\* C3: overlapping purchase and restock calls on a sweet behave as if run one
\* after the other: the purchases that succeeded never take more than the
\* initial quantity plus what was restocked, and no committed decrement or
\* increment is lost (the quantity is the ledger's balance).
C3_SerializedLedger ==
    \A i \in DOMAIN sweets :
        /\ ledger[i].purchased <= ledger[i].initial + ledger[i].restocked
        /\ sweets[i].quantity
              = ledger[i].initial - ledger[i].purchased + ledger[i].restocked

\* C4: a purchase of any amount > 0, by an authenticated caller, of a sweet
\* that exists with quantity 0 is answered 400 "Sweet is out of stock", never
\* with the insufficient-stock answer.
C4_OutOfStock ==
    [][(/\ req'.op = "purchase"
        /\ CallerAuthenticated(req')
        /\ req'.quantity > 0
        /\ req'.sweet_id \in DOMAIN sweets
        /\ sweets[req'.sweet_id].quantity = 0)
       => resp' = HTTPException(HTTP_400_BAD_REQUEST, "Sweet is out of stock")]_vars

\* C4 witness: more than one unit was asked of a sweet with none left, and the
\* answer was out of stock.
C4_Witness ==
    /\ req.op = "purchase"
    /\ req.quantity > 1
    /\ req.sweet_id \in DOMAIN sweets
    /\ sweets[req.sweet_id].quantity = 0
    /\ resp = HTTPException(HTTP_400_BAD_REQUEST, "Sweet is out of stock")

\* C5: a purchase, by an authenticated caller, of a sweet that exists with
\* 0 < quantity < amount is answered 400 insufficient stock, and the detail
\* reports exactly the quantity stored for that sweet.
C5_InsufficientStock ==
    [][(/\ req'.op = "purchase"
        /\ CallerAuthenticated(req')
        /\ req'.sweet_id \in DOMAIN sweets
        /\ 0 < sweets[req'.sweet_id].quantity
        /\ sweets[req'.sweet_id].quantity < req'.quantity)
       => resp' = Response(HTTP_400_BAD_REQUEST,
                           "Insufficient stock. Only {} available",
                           <<sweets[req'.sweet_id].quantity>>, <<>>)]_vars

\* C5 witness: a purchase was refused for insufficient stock, with two units
\* reported available.
C5_Witness ==
    /\ req.op = "purchase"
    /\ resp.status = HTTP_400_BAD_REQUEST
    /\ resp.detail = "Insufficient stock. Only {} available"
    /\ resp.args = <<2>>
    /\ sweets[req.sweet_id].quantity = 2

\* C6: a purchase, by an authenticated caller, of a sweet that exists with
\* quantity >= amount > 0 is answered 200, takes exactly the amount from that
\* sweet's quantity, changes no other field and no other sweet, and returns
\* the updated row.
C6_PurchaseSucceeds ==
    [][(/\ req'.op = "purchase"
        /\ CallerAuthenticated(req')
        /\ req'.quantity > 0
        /\ req'.sweet_id \in DOMAIN sweets
        /\ sweets[req'.sweet_id].quantity >= req'.quantity)
       => (/\ resp'.status = HTTP_200_OK
           /\ sweets' = [sweets EXCEPT ![req'.sweet_id].quantity = @ - req'.quantity]
           /\ resp'.body = <<sweets'[req'.sweet_id]>>)]_vars

\* C6 witness: a caller of role USER bought all that was left of one sweet,
\* more than one unit, while another sweet was in the catalog.
C6_Witness ==
    /\ req.op = "purchase"
    /\ CallerRoles(req) = {"USER"}
    /\ req.quantity > 1
    /\ resp.status = HTTP_200_OK
    /\ resp.body = <<sweets[req.sweet_id]>>
    /\ sweets[req.sweet_id].quantity = 0
    /\ DOMAIN sweets # {req.sweet_id}

\* The tokens of the users of role ADMIN.
AdminCredentials == {c \in issued : {u.role : u \in UsersByEmail(users, c.sub)} = {"ADMIN"}}

\* C7: a restock of any amount > 0, by a caller of role ADMIN, of a sweet that
\* exists is answered 200 whatever its quantity (0 included, and with no upper
\* bound), adds exactly the amount to that sweet's quantity and returns the
\* updated row; and once a sweet with none left is restocked by k, a purchase
\* of any amount <= k succeeds.
C7_RestockSucceeds ==
    /\ [][(/\ req'.op = "restock"
           /\ req'.cred \in AdminCredentials
           /\ req'.quantity > 0
           /\ req'.sweet_id \in DOMAIN sweets)
          => (/\ resp'.status = HTTP_200_OK
              /\ sweets' = [sweets EXCEPT ![req'.sweet_id].quantity = @ + req'.quantity]
              /\ resp'.body = <<sweets'[req'.sweet_id]>>)]_vars
    /\ [](\A cred \in AdminCredentials, buyer \in issued, i \in DOMAIN sweets,
            k \in 1..MaxAmount :
            LET restocked == restock_sweet(cred, i, k, users, sweets, now) IN
            /\ restocked.resp.status = HTTP_200_OK
            /\ restocked.sweets[i].quantity = sweets[i].quantity + k
            /\ sweets[i].quantity = 0 =>
                 \A a \in 1..k :
                    purchase_sweet(buyer, i, a, users, restocked.sweets, now)
                        .resp.status = HTTP_200_OK)

\* C7 witness: a sweet with none left was restocked by more than one unit.
C7_Witness ==
    /\ req.op = "restock"
    /\ req.quantity > 1
    /\ resp.status = HTTP_200_OK
    /\ resp.body = <<sweets[req.sweet_id]>>
    /\ sweets[req.sweet_id].quantity = req.quantity

\* C8: a purchase or a restock that fails for a missing sweet, an empty stock
\* or an insufficient stock leaves every field of every sweet as it was.
C8_FailureChangesNothing ==
    [][(/\ req'.op \in {"purchase", "restock"}
        /\ resp'.status \in {HTTP_404_NOT_FOUND, HTTP_400_BAD_REQUEST})
       => sweets' = sweets]_vars

\* C8 witness: a purchase failed for insufficient stock with two sweets in the
\* catalog.
C8_Witness ==
    /\ req.op = "purchase"
    /\ resp.status = HTTP_400_BAD_REQUEST
    /\ resp.args # <<>>
    /\ Cardinality(DOMAIN sweets) >= 2

\* The caller of the request may call its operation: any authenticated user
\* may purchase, a user of role ADMIN may restock.
CallerAuthorized(request) ==
    IF request.op = "purchase" THEN CallerAuthenticated(request)
    ELSE request.cred \in AdminCredentials

\* C9: a purchase or restock whose amount is <= 0 is answered 422 by the
\* request validation, for every authorized caller and every sweet id, and no
\* sweet changes.
C9_AmountValidated ==
    [][(/\ req'.op \in {"purchase", "restock"}
        /\ CallerAuthorized(req')
        /\ req'.quantity <= 0)
       => (/\ resp' = RequestValidationError
           /\ sweets' = sweets)]_vars

\* C9 witness: a purchase of amount 0 of a sweet in stock was answered 422.
C9_Witness ==
    /\ req.op = "purchase"
    /\ req.quantity = 0
    /\ req.sweet_id \in DOMAIN sweets
    /\ sweets[req.sweet_id].quantity > 0
    /\ resp = RequestValidationError

\* C10: create, update, delete and restock called by an authenticated user of
\* role USER are answered 403 "Admin access required", whatever the catalog
\* and the arguments, and leave the catalog as it was.
C10_UserForbidden ==
    [][(/\ req'.op \in {"create", "update", "delete", "restock"}
        /\ CallerAuthenticated(req')
        /\ CallerRoles(req') = {"USER"})
       => (/\ resp' = HTTPException(HTTP_403_FORBIDDEN, "Admin access required")
           /\ sweets' = sweets)]_vars

\* C10 witness: a user of role USER asked to delete a sweet that exists and
\* was answered 403.
C10_Witness ==
    /\ req.op = "delete"
    /\ CallerAuthenticated(req)
    /\ CallerRoles(req) = {"USER"}
    /\ req.sweet_id \in DOMAIN sweets
    /\ resp.status = HTTP_403_FORBIDDEN

\* C11: a purchase is answered, and leaves the catalog, the same whoever the
\* authenticated caller is: for the same catalog, sweet id and amount, the
\* purchase by a user of role USER and the one by a user of role ADMIN give the
\* same response and the same catalog.
C11_PurchaseAnyRole ==
    [][(/\ req'.op = "purchase"
        /\ CallerAuthenticated(req'))
       => \A other \in issued :
             LET same == purchase_sweet(other, req'.sweet_id, req'.quantity,
                                        users, sweets, now)
             IN /\ CallerRoles(req') \cup CallerRoles([cred |-> other]) = UserRole
                   => (resp' = same.resp /\ sweets' = same.sweets)]_vars

\* C11 witness: a user of role USER bought one unit of a sweet that had more,
\* and an ADMIN asking the same of the catalog before would have got that answer.
C11_Witness ==
    /\ req.op = "purchase"
    /\ CallerRoles(req) = {"USER"}
    /\ req.quantity = 1
    /\ resp.status = HTTP_200_OK
    /\ sweets[req.sweet_id].quantity > 0
    /\ \E admin \in AdminCredentials :
          purchase_sweet(admin, req.sweet_id, 1, users,
                         SetQuantity(sweets, req.sweet_id,
                                     sweets[req.sweet_id].quantity + 1), now).resp = resp

\* The five protected operations.
ProtectedOps == {"create", "update", "delete", "purchase", "restock"}

\* The handler of a request applied to given tables.
Handled(request, us, sw, t) ==
    CASE request.op = "create" -> create_sweet(request.cred, request.data, us, sw, t)
      [] request.op = "update" ->
            update_sweet(request.cred, request.sweet_id, request.data, us, sw, t)
      [] request.op = "delete" -> delete_sweet(request.cred, request.sweet_id, us, sw, t)
      [] request.op = "purchase" ->
            purchase_sweet(request.cred, request.sweet_id, request.quantity, us, sw, t)
      [] request.op = "restock" ->
            restock_sweet(request.cred, request.sweet_id, request.quantity, us, sw, t)
      [] request.op = "list" -> list_sweets(sw)
      [] request.op = "search" -> search_sweets(request.params, sw)

\* C12: a purchase, restock, create, update or delete that carries no bearer
\* token, or one that is not a valid token of a user, is rejected (401 or 403)
\* without the catalog being read or written: the answer is the one given
\* whatever the catalog holds, and the catalog after it is the catalog before.
C12_RejectedBeforeCatalog ==
    [][(/\ req'.op \in ProtectedOps
        /\ ~CallerAuthenticated(req'))
       => (/\ resp'.status \in {HTTP_401_UNAUTHORIZED, HTTP_403_FORBIDDEN}
           /\ sweets' = sweets
           /\ \A sw \in {WithIds(c) : c \in Catalogs} :
                 Handled(req', users, sw, now).resp = resp')]_vars

\* C12 witness: a delete of a sweet that exists, carrying a token signed with
\* another key, was rejected and the sweet is still there.
C12_Witness ==
    /\ req.op = "delete"
    /\ req.cred = ForgedToken
    /\ req.sweet_id \in DOMAIN sweets
    /\ resp.status = HTTP_401_UNAUTHORIZED

\* C13: on each of the five protected operations, a request with no bearer
\* credential is answered 403, and a request whose bearer token is present
\* but has a bad signature, is expired or has no email claim is answered 401.
C13_AbsentOrInvalid ==
    [][req'.op \in ProtectedOps
       => (/\ req'.cred.scheme = "none" => resp'.status = HTTP_403_FORBIDDEN
           /\ (/\ req'.cred.scheme = "bearer"
               /\ \/ req'.cred.key # SECRET_KEY
                  \/ req'.cred.exp < now
                  \/ req'.cred.sub = "")
              => resp' = HTTPException(HTTP_401_UNAUTHORIZED,
                                       "Could not validate credentials"))]_vars

\* C13 witness: a purchase of a sweet in stock with an expired token was
\* answered 401.
C13_Witness ==
    /\ req.op = "purchase"
    /\ req.cred = ExpiredToken
    /\ req.quantity > 0
    /\ req.sweet_id \in DOMAIN sweets
    /\ sweets[req.sweet_id].quantity >= req.quantity
    /\ resp.status = HTTP_401_UNAUTHORIZED

\* C14: a create by a caller of role ADMIN whose name and category are not
\* empty, whose price is > 0 and whose quantity is >= 0 is answered 201, adds
\* exactly one sweet, under an id that was not in use, holding exactly the
\* given values, and returns that row; if one of the four constraints is
\* violated the answer is 422 and no sweet is added.
C14_CreateValidated ==
    [][(/\ req'.op = "create"
        /\ req'.cred \in AdminCredentials)
       => IF /\ req'.data.name # ""
             /\ req'.data.category # ""
             /\ req'.data.price > 0
             /\ req'.data.quantity >= 0
          THEN /\ resp'.status = HTTP_201_CREATED
               /\ \E id \in DOMAIN sweets' \ DOMAIN sweets :
                     /\ DOMAIN sweets' = DOMAIN sweets \cup {id}
                     /\ \A i \in DOMAIN sweets : sweets'[i] = sweets[i]
                     /\ sweets'[id] = Sweet(id, req'.data.name, req'.data.category,
                                            req'.data.price, req'.data.quantity)
                     /\ resp'.body = <<sweets'[id]>>
          ELSE /\ resp' = RequestValidationError
               /\ sweets' = sweets]_vars

\* C14 witness: a second sweet was created, with quantity 0, beside a first
\* one of another name.
C14_Witness ==
    /\ req.op = "create"
    /\ resp.status = HTTP_201_CREATED
    /\ req.data.quantity = 0
    /\ Cardinality(DOMAIN sweets) = 2
    /\ \E i, j \in DOMAIN sweets :
          /\ resp.body = <<sweets[j]>>
          /\ sweets[i].name # sweets[j].name

\* C15: an update by a caller of role ADMIN with valid values (validated as in
\* create) of an id that exists is answered 200, replaces the name, category,
\* price and quantity of that sweet with the given values, keeps its id,
\* changes no other sweet and returns the updated row; of an id that does not
\* exist it is answered 404 and the catalog is unchanged; values that violate
\* a constraint are answered 422 and change nothing.
C15_UpdateReplaces ==
    [][(/\ req'.op = "update"
        /\ req'.cred \in AdminCredentials)
       => IF ~(/\ req'.data.name # ""
               /\ req'.data.category # ""
               /\ req'.data.price > 0
               /\ req'.data.quantity >= 0)
          THEN /\ resp' = RequestValidationError
               /\ sweets' = sweets
          ELSE IF req'.sweet_id \in DOMAIN sweets
          THEN /\ resp'.status = HTTP_200_OK
               /\ sweets' = [sweets EXCEPT ![req'.sweet_id] =
                                Sweet(req'.sweet_id, req'.data.name, req'.data.category,
                                      req'.data.price, req'.data.quantity)]
               /\ resp'.body = <<sweets'[req'.sweet_id]>>
          ELSE /\ resp'.status = HTTP_404_NOT_FOUND
               /\ sweets' = sweets]_vars

\* C15 witness: an update changed the name, the category, the price and the
\* quantity of a sweet, beside another sweet.
C15_Witness ==
    /\ req.op = "update"
    /\ resp.status = HTTP_200_OK
    /\ Cardinality(DOMAIN sweets) = 2
    /\ resp.body = <<sweets[req.sweet_id]>>
    /\ sweets[req.sweet_id].name = "Fudge"
    /\ sweets[req.sweet_id].quantity = MaxQuantity
    /\ \E i \in DOMAIN sweets : sweets[i].name = "Candy"

\* The ids of the rows of a response.
BodyIds(response) == {response.body[k].id : k \in 1..Len(response.body)}

\* C16: a delete by a caller of role ADMIN of an id that exists is answered
\* 204 and removes exactly that sweet: it is in neither list nor search
\* afterwards and every other sweet is as it was; of an id that does not exist
\* it is answered 404 and the catalog is unchanged.
C16_DeleteRemoves ==
    [][(/\ req'.op = "delete"
        /\ req'.cred \in AdminCredentials)
       => IF req'.sweet_id \in DOMAIN sweets
          THEN /\ resp'.status = HTTP_204_NO_CONTENT
               /\ DOMAIN sweets' = DOMAIN sweets \ {req'.sweet_id}
               /\ \A i \in DOMAIN sweets' : sweets'[i] = sweets[i]
               /\ req'.sweet_id \notin BodyIds(list_sweets(sweets').resp)
               /\ req'.sweet_id \notin BodyIds(search_sweets(NoParams, sweets').resp)
               /\ BodyIds(list_sweets(sweets').resp) = DOMAIN sweets \ {req'.sweet_id}
          ELSE /\ resp'.status = HTTP_404_NOT_FOUND
               /\ sweets' = sweets]_vars

\* C16 witness: the first of two sweets was deleted and the second is still
\* listed.
C16_Witness ==
    /\ req.op = "delete"
    /\ resp.status = HTTP_204_NO_CONTENT
    /\ req.sweet_id = 1
    /\ DOMAIN sweets = {2}
    /\ BodyIds(list_sweets(sweets).resp) = {2}

\* The ids a search with the given parameters returns from the catalog.
FoundIds(params) == BodyIds(search_sweets(params, sweets).resp)

\* A search answered as the conjunction of its filters: the sweets returned
\* are those every given filter returns alone; with no filter they are the
\* sweets of list; a category filter that counts as given returns alone the
\* sweets of exactly that category, a lower (upper) price bound alone the
\* sweets priced at or above (at or below) it, and a filter not given returns
\* every sweet.
SearchConjunctive(params, response, categoryGiven) ==
    LET byName == FoundIds(SearchParams(params.name, <<>>, <<>>, <<>>))
        byCategory == FoundIds(SearchParams(<<>>, params.category, <<>>, <<>>))
        byMin == FoundIds(SearchParams(<<>>, <<>>, params.min_price, <<>>))
        byMax == FoundIds(SearchParams(<<>>, <<>>, <<>>, params.max_price))
    IN /\ BodyIds(response) = byName \cap byCategory \cap byMin \cap byMax
       /\ params = NoParams => response.body = list_sweets(sweets).resp.body
       /\ params.name = <<>> => byName = DOMAIN sweets
       /\ byCategory = IF categoryGiven
                       THEN {i \in DOMAIN sweets : sweets[i].category = params.category[1]}
                       ELSE DOMAIN sweets
       /\ byMin = IF params.min_price # <<>>
                  THEN {i \in DOMAIN sweets : sweets[i].price >= params.min_price[1]}
                  ELSE DOMAIN sweets
       /\ byMax = IF params.max_price # <<>>
                  THEN {i \in DOMAIN sweets : sweets[i].price <= params.max_price[1]}
                  ELSE DOMAIN sweets

\* C17, as stated: in every catalog state a search with no filters returns
\* the sweets of list, and a search with any combination of name, category,
\* min_price and max_price returns the intersection of what each filter that
\* is present returns alone, the price bounds being inclusive and a category
\* that is present, whatever its value, an exact match.
C17_SearchConjunctive_AsStated ==
    [][(req'.op = "search" /\ resp'.status = HTTP_200_OK)
       => SearchConjunctive(req'.params, resp', req'.params.category # <<>>)]_vars

\* C17, amended: the same, a category given as the empty string imposing no
\* constraint, like an absent one; a category that is not empty is an exact
\* match.
C17_SearchConjunctive ==
    [][(req'.op = "search" /\ resp'.status = HTTP_200_OK)
       => SearchConjunctive(req'.params, resp',
                            req'.params.category \notin {<<>>, <<"">>})]_vars

\* C17 witness: a search with all four filters returned one of two sweets,
\* the other failing the category and the upper bound.
C17_Witness ==
    /\ req.op = "search"
    /\ req.params = SearchParams(<<"choc">>, <<"Bar">>, <<100>>, <<150>>)
    /\ resp.status = HTTP_200_OK
    /\ Cardinality(DOMAIN sweets) = 2
    /\ Len(resp.body) = 1
    /\ \E i \in DOMAIN sweets : sweets[i].category = "bar" /\ sweets[i].price = 200

\* One string occurs in another, the case of the ASCII letters set aside.
ContainsIgnoringCase(str, sub) ==
    \E k \in 1..(Len(str) - Len(sub) + 1) :
        Lower(SubSeq(str, k, k + Len(sub) - 1)) = Lower(sub)

\* C18: for every name filter n that is not empty, whatever its characters,
\* search(name=n) returns exactly the sweets whose name contains n as a
\* substring, case set aside: every sweet returned contains n and every sweet
\* containing n is returned.
C18_NameSubstring ==
    [][(/\ req'.op = "search"
        /\ req'.params.name \notin {<<>>, <<"">>}
        /\ req'.params = SearchParams(req'.params.name, <<>>, <<>>, <<>>))
       => /\ resp'.status = HTTP_200_OK
          /\ BodyIds(resp') = {i \in DOMAIN sweets :
                                 ContainsIgnoringCase(sweets[i].name,
                                                      req'.params.name[1])}]_vars

\* The answer of a search that did not fail: 200 with a sequence of sweets of
\* the catalog, each at most once, empty when no sweet has the category asked
\* for.
SearchAnswered(params, response) ==
    /\ response.status = HTTP_200_OK
    /\ \A k \in 1..Len(response.body) :
          /\ response.body[k].id \in DOMAIN sweets
          /\ response.body[k] = sweets[response.body[k].id]
    /\ Len(response.body) = Cardinality(BodyIds(response))
    /\ (/\ params.category \notin {<<>>, <<"">>}
        /\ \A i \in DOMAIN sweets : sweets[i].category # params.category[1])
       => response.body = <<>>

\* C19, as stated: search never fails: for every combination of present or
\* absent name, category, min_price and max_price values, in every catalog
\* state, it answers 200 with a finite, possibly empty, sequence of sweets.
C19_SearchNeverFails_AsStated ==
    [][req'.op = "search" => SearchAnswered(req'.params, resp')]_vars

\* C19, amended: the same for every combination of values in which each
\* price bound is absent or not negative.
C19_SearchNeverFails ==
    [][(/\ req'.op = "search"
        /\ req'.params.min_price # <<>> => req'.params.min_price[1] >= 0
        /\ req'.params.max_price # <<>> => req'.params.max_price[1] >= 0)
       => SearchAnswered(req'.params, resp')]_vars

\* C19 witness: a search for a category no sweet has, with a lower bound above
\* the upper one, in a catalog that is not empty, was answered 200 with the
\* empty sequence.
C19_Witness ==
    /\ req.op = "search"
    /\ req.params = SearchParams(<<"%">>, <<"Tin">>, <<200>>, <<100>>)
    /\ DOMAIN sweets # {}
    /\ resp.status = HTTP_200_OK
    /\ resp.body = <<>>

\* C20: list and search are reads that can be repeated: the call changes
\* nothing in the catalog, and the same call made again, once or twice, with
\* no create, update, delete, purchase or restock in between is given the
\* same answer.
C20_ReadsIdempotent ==
    [][req'.op \in {"list", "search"}
       => LET again == Handled(req', users, sweets', now)
              thrice == Handled(req', users, again.sweets, now)
          IN /\ sweets' = sweets
             /\ again.resp = resp'
             /\ thrice.resp = resp'
             /\ thrice.sweets = sweets]_vars

\* C20 witness: list returned the two sweets of the catalog, and returns them
\* again.
C20_Witness ==
    /\ req.op = "list"
    /\ resp.status = HTTP_200_OK
    /\ Len(resp.body) = 2
    /\ list_sweets(sweets).resp = resp

\* C21: a register with an email that is already registered is answered 400
\* "Email already registered", adds no user and leaves the user of that email
\* (password hash and role included) as it was; and after any sequence of
\* register calls no two users have the same email.
C21_DuplicateEmail ==
    /\ [][(/\ req'.op = "register"
           /\ Len(req'.user.password) >= 8
           /\ req'.user.role \in {<<>>, <<"USER">>, <<"ADMIN">>}
           /\ \E u \in users : u.email = EmailStr(req'.user.email))
          => (/\ resp' = HTTPException(HTTP_400_BAD_REQUEST, "Email already registered")
              /\ users' = users)]_vars
    /\ [](\A u, v \in users : u.email = v.email => u = v)

\* C21 witness: with two users registered, a register of the second one's
\* address (its domain in capitals) with another password and the role ADMIN
\* was answered 400, and that user still has the role USER.
C21_Witness ==
    /\ req.op = "register"
    /\ req.user = UserData("user@SweetShop.COM", "AdminPass123!", <<"ADMIN">>)
    /\ resp.status = HTTP_400_BAD_REQUEST
    /\ Cardinality(users) = 2
    /\ \E u \in users :
          /\ u.email = UserEmail
          /\ u.role = "USER"
          /\ verify_password("UserPass123!", u.hashed_password)

\* A login answered as claimed: 200 with a token whose identity claim is the
\* user's email exactly when the email is registered and the password
\* verifies against that user's hash; otherwise the one 401, and no token.
LoginAnswered(request, response) ==
    LET registered == {u \in users : u.email = EmailStr(request.user.email)}
    IN IF \E u \in registered : verify_password(request.user.password, u.hashed_password)
       THEN /\ response.status = HTTP_200_OK
            /\ Len(response.body) = 1
            /\ \A u \in registered :
                  /\ response.body[1].access_token.sub = u.email
                  /\ decode_access_token(response.body[1].access_token, now) = <<u.email>>
            /\ issued' = issued \cup {response.body[1].access_token}
       ELSE /\ response = HTTPException(HTTP_401_UNAUTHORIZED, "Incorrect email or password")
            /\ issued' = issued

\* C22, as stated: login returns 200 with a token for the user's email if and
\* only if the email is registered and the password verifies; otherwise it
\* returns 401 and no token, the same 401 for an email that is not registered
\* and for a wrong password.
C22_LoginVerifies_AsStated ==
    [][req'.op = "login" => LoginAnswered(req', resp')]_vars

\* C22, amended: the same for every login whose email is a well-formed
\* address; an email that is no address is answered 422, and no token.
C22_LoginVerifies ==
    [][req'.op = "login"
       => IF EmailStrValid(req'.user.email)
          THEN LoginAnswered(req', resp')
          ELSE resp' = RequestValidationError /\ issued' = issued]_vars

\* C22 witness: with two users registered under different passwords, the
\* second logged in and was handed a token for its email.
C22_Witness ==
    /\ req.op = "login"
    /\ req.user.password = "UserPass123!"
    /\ resp.status = HTTP_200_OK
    /\ resp.body[1].access_token = create_access_token(UserEmail, now)
    /\ resp.body[1].access_token \in issued
    /\ \E u \in users : u.email = AdminEmail /\ verify_password("AdminPass123!", u.hashed_password)

\* C26: a user is created by a register that succeeds and never changes
\* afterwards: every step of the system, a register of any email, a login or
\* a catalog or inventory call, leaves every existing user (email, password
\* hash, role) in the users table as it was, and the table changes only by a
\* register answered 201 adding one user.
C26_UsersImmutable ==
    [][/\ users \subseteq users'
       /\ users' # users
            => (/\ req'.op = "register"
                /\ resp'.status = HTTP_201_CREATED
                /\ Cardinality(users') = Cardinality(users) + 1)]_vars

\* C26 witness: a second user registered after the first had logged in and
\* created a sweet; the first user is in the table with its hash.
C26_Witness ==
    /\ req.op = "register"
    /\ resp.status = HTTP_201_CREATED
    /\ resp.body[1].id = 2
    /\ issued # {}
    /\ DOMAIN sweets # {}
    /\ \E u \in users : u.id = 1 /\ u.role = "ADMIN" /\ create_access_token(u.email, 0) \in issued

\* C23: a token handed out by login carries one identity claim, the user's
\* email, and expires ACCESS_TOKEN_EXPIRE_MINUTES (30) minutes after the
\* login; validating it yields that email at every time before the expiry and
\* nothing at every time after it; and a protected call presenting it after
\* the expiry is answered 401 and changes nothing in the catalog.
C23_TokenWindow ==
    /\ [][(req'.op = "login" /\ resp'.status = HTTP_200_OK)
          => (/\ resp'.body[1].access_token.sub = EmailStr(req'.user.email)
              /\ resp'.body[1].access_token.exp = now + 30
              /\ issued' = issued \cup {resp'.body[1].access_token})]_vars
    /\ [](\A token \in issued : \A t \in 0..(MaxTime + 30) :
            /\ (token.exp - 30 <= t /\ t < token.exp)
                  => decode_access_token(token, t) = <<token.sub>>
            /\ t > token.exp => decode_access_token(token, t) = <<>>)
    /\ [][(/\ req'.op \in ProtectedOps
           /\ req'.cred \in issued
           /\ now > req'.cred.exp)
          => (/\ resp'.status = HTTP_401_UNAUTHORIZED
              /\ sweets' = sweets)]_vars

\* C23 witness: the administrator's token of the first login is presented a
\* minute after its expiry to delete the sweet, which is in stock, and is
\* answered 401.
C23_Witness ==
    /\ req.op = "delete"
    /\ req.cred = create_access_token(AdminEmail, 0)
    /\ now = req.cred.exp + 1
    /\ req.sweet_id \in DOMAIN sweets
    /\ sweets[req.sweet_id].quantity > 0
    /\ resp.status = HTTP_401_UNAUTHORIZED

\* C24: in every state reached by create, update, delete, purchase and
\* restock calls every sweet has quantity >= 0, and the quantity of a sweet
\* that exists changes only in a purchase or a restock, never by an
\* assignment made by another operation.
C24_QuantityOnlyByInventory ==
    /\ [](\A i \in DOMAIN sweets : sweets[i].quantity >= 0)
    /\ [][\A i \in DOMAIN sweets \cap DOMAIN sweets' :
             sweets'[i].quantity # sweets[i].quantity
                => req'.op \in {"purchase", "restock"}]_vars

\* C27: the role is tested before the catalog is touched and the target is
\* never looked at: a create, update, delete or restock by a caller of role
\* USER is answered 403 whether or not the id exists, never 404, with the
\* same answer for every catalog; and the existence test, the stock tests and
\* the write are reached only by callers of role ADMIN.
C27_RoleBeforeCatalog ==
    [][req'.op \in {"create", "update", "delete", "restock"}
       => /\ (CallerAuthenticated(req') /\ CallerRoles(req') = {"USER"})
               => /\ resp'.status = HTTP_403_FORBIDDEN
                  /\ \A sw \in {WithIds(c) : c \in Catalogs} :
                        Handled(req', users, sw, now).resp = resp'
          /\ (\/ resp'.status \in {HTTP_404_NOT_FOUND, HTTP_200_OK, HTTP_201_CREATED,
                                    HTTP_204_NO_CONTENT}
              \/ sweets' # sweets)
               => req'.cred \in AdminCredentials]_vars

\* C27 witness: a restock by a caller of role USER of an id that is not in
\* the catalog, beside a sweet that is, was answered 403.
C27_Witness ==
    /\ req.op = "restock"
    /\ req.quantity > 0
    /\ CallerRoles(req) = {"USER"}
    /\ req.sweet_id \notin DOMAIN sweets
    /\ DOMAIN sweets # {}
    /\ resp = HTTPException(HTTP_403_FORBIDDEN, "Admin access required")

\* C30: once a delete of an id has succeeded the id is not in the catalog,
\* and for as long as no create is performed it stays out of it: every
\* purchase, restock, update or delete of that id (by a caller allowed to
\* make it, with a valid amount or valid values) is answered 404, every call
\* on it changes nothing, and no purchase, restock or update brings the sweet
\* back.
C30_DeletedStaysDeleted ==
    [][/\ (req'.op = "delete" /\ resp'.status = HTTP_204_NO_CONTENT)
            => req'.sweet_id \notin DOMAIN sweets'
       /\ \A i \in SweetIds \ DOMAIN sweets :
            /\ req'.op # "create" => i \notin DOMAIN sweets'
            /\ (req'.op \in {"purchase", "restock", "update", "delete"}
                   /\ req'.sweet_id = i)
                 => /\ sweets' = sweets
                    /\ resp'.status \notin {HTTP_200_OK, HTTP_204_NO_CONTENT}
                    /\ (/\ CallerAuthorized(req')
                        /\ req'.op \in {"purchase", "restock"} => req'.quantity > 0
                        /\ req'.op = "update" => req'.data \in ValidSweetData)
                       => resp'.status = HTTP_404_NOT_FOUND]_vars

\* C30 witness: the first sweet created was deleted (the second is there, the
\* first is not), and an update of it with valid values was answered 404.
C30_Witness ==
    /\ req.op = "update"
    /\ req.sweet_id = 1
    /\ req.data \in ValidSweetData
    /\ DOMAIN sweets = {2}
    /\ resp.status = HTTP_404_NOT_FOUND

\* The catalog the overlapping sessions started from (the ledger has every
\* sweet's first quantity), and what the call of session s answers and stores
\* when it is the only call made on that catalog.
InitialCatalog ==
    [i \in DOMAIN ledger |-> Sweet(i, "Candy", "Sweet", 150, ledger[i].initial)]

Alone(s) ==
    Handled(Request(sess[s].op, AdminToken, sess[s].sweet_id, sess[s].quantity,
                    sess[s].data),
            users, InitialCatalog, now)

\* C25: calls on different sweets are independent.  With every session on a
\* sweet of its own, whatever the other sessions did before or between its
\* statements: until a session commits, its sweet is as it was at the start
\* (no purchase, restock, update or delete of another sweet touched it), and
\* when the session is done its answer and its sweet's row are those of the
\* same call made alone.
C25_Independent ==
    \A s \in Sessions :
        /\ sess[s].pc \in {"new", "query", "check", "commit"}
             => QuerySweet(sweets, s) = QuerySweet(InitialCatalog, s)
        /\ sess[s].pc = "done"
             => /\ sess[s].resp = Alone(s).resp
                /\ QuerySweet(sweets, s) = QuerySweet(Alone(s).sweets, s)

\* C25 witness: the update of the second sweet ran from start to end, and
\* changed its row, between the SELECT and the UPDATE of a purchase of the
\* first sweet.
C25_Witness ==
    /\ sess[1].op = "purchase"
    /\ sess[1].pc = "commit"
    /\ sess[2].op = "update"
    /\ sess[2].pc = "done"
    /\ sess[2].resp.status = HTTP_200_OK
    /\ sweets[2] # InitialCatalog[2]

\* The calls of the sessions made one after the other, in an order, each from
\* start to end, on a catalog.
RECURSIVE Serial(_, _)
Serial(order, sw) ==
    IF order = <<>> THEN sw
    ELSE Serial(Tail(order),
                Handled(Request(sess[Head(order)].op, AdminToken,
                                sess[Head(order)].sweet_id, sess[Head(order)].quantity,
                                sess[Head(order)].data),
                        users, sw, now).sweets)

Orders ==
    {o \in [Sessions -> Sessions] : \A i, j \in Sessions : i # j => o[i] # o[j]}

\* C28: an administrator's update of a sweet overlapping purchases and
\* restocks of the same sweet ends as some serial order of the calls would:
\* when every call has been answered, the catalog is the one that the calls
\* made one after the other, in some order, leave.
C28_UpdateSerializable ==
    (\A s \in Sessions : sess[s].pc = "done")
        => \E o \in Orders : sweets = Serial(o, InitialCatalog)

\* No two users have the same email.
EmailsUnique == \A u, v \in users : u.email = v.email => u = v

\* C29: two registrations of the same new email that overlap (both lookups
\* before either commit) leave at most one user with that email, and the one
\* that loses is answered 400 "Email already registered", not with any other
\* failure: a registration that did not create its user was answered that 400.
C29_RegisterRace ==
    /\ EmailsUnique
    /\ \A s \in Sessions :
          (sess[s].pc = "done" /\ sess[s].resp.status # HTTP_201_CREATED)
              => sess[s].resp = HTTPException(HTTP_400_BAD_REQUEST,
                                              "Email already registered")

====
